---- MODULE Spec2Model ----
(***************************************************************************)
(* Model of the three rendering scripts of wagnerdp83/AI-Builder:          *)
(*   src/rendering/scrape_logos.py        (logo harvester)                 *)
(*   src/rendering/download_hero_image.py (hero image fetcher)             *)
(*   src/rendering/convert_to_avif.py     (format converter)               *)
(* Python strings are sequences of one-character strings; an optional      *)
(* value (None or a string) is a record [some, s].  The network, the HTML  *)
(* of the fetched pages, the image file and the failures of the file       *)
(* system are the environment: every action draws them from small sets.    *)
(***************************************************************************)
EXTENDS Naturals, Sequences, FiniteSets

VARIABLES
    script,        \* the entry point (or function) that is being run
    pc,            \* position in that entry point
    dirKind,       \* what the path public/images is: "absent", "dir", "file"
    files,         \* the files under public/images
    out,           \* trace of external effects: prints, GETs, makedirs, opens
    idx,           \* scrape_logos.main: index of the site being processed
    page,          \* the parsed document (soup) while a page is being searched
    logo_content,  \* scrape_logos.main: the candidate of the current site
    image_url,     \* download_hero_image: the resolved image URL
    img,           \* convert_to_avif: the image Image.open finds at the input path
    arg            \* arguments of a direct call of save_logo / of the join

vars == <<script, pc, dirKind, files, out, idx, page, logo_content,
          image_url, img, arg>>

\* Bound of the model: the number of elements of a fetched page.
MaxElems == 2

-----------------------------------------------------------------------------
(* Python values *)

PyNone == [some |-> FALSE, s |-> <<>>]
PyStr(s) == [some |-> TRUE, s |-> s]

\* Python truthiness of None / str.
Truthy(v) == v.some /\ v.s # <<>>

\* str.startswith(p)
StartsWith(s, p) == Len(s) >= Len(p) /\ SubSeq(s, 1, Len(p)) = p

\* `sub in s`
Contains(s, sub) ==
    \E i \in 0 .. Len(s) : i + Len(sub) <= Len(s) /\ SubSeq(s, i + 1, i + Len(sub)) = sub

UpperAlpha == <<"A","B","C","D","E","F","G","H","I","J","K","L","M",
                "N","O","P","Q","R","S","T","U","V","W","X","Y","Z">>
LowerAlpha == <<"a","b","c","d","e","f","g","h","i","j","k","l","m",
                "n","o","p","q","r","s","t","u","v","w","x","y","z">>

LowerChar(c) ==
    IF \E i \in 1 .. 26 : UpperAlpha[i] = c
    THEN LowerAlpha[CHOOSE i \in 1 .. 26 : UpperAlpha[i] = c]
    ELSE c

\* str.lower()
Lower(s) == [i \in 1 .. Len(s) |-> LowerChar(s[i])]

\* str.rstrip(c): every trailing c removed
RECURSIVE RStrip(_, _)
RStrip(s, c) ==
    IF s # <<>> /\ s[Len(s)] = c THEN RStrip(SubSeq(s, 1, Len(s) - 1), c) ELSE s

\* str.lstrip(c): every leading c removed
RECURSIVE LStrip(_, _)
LStrip(s, c) ==
    IF s # <<>> /\ Head(s) = c THEN LStrip(Tail(s), c) ELSE s

-----------------------------------------------------------------------------
(* String literals of the source *)

SvgTag == <<"<","s","v","g">>
Http == <<"h","t","t","p",":","/","/">>
Https == <<"h","t","t","p","s",":","/","/">>
KwLogo == <<"l","o","g","o">>
KwBrand == <<"b","r","a","n","d">>
HeroAlt == <<"H","e","r","o"," ","I","m","a","g","e">>
PrelineHost == <<"h","t","t","p","s",":","/","/","p","r","e","l","i","n","e",".","c","o">>
HeroPageUrl ==
    PrelineHost \o
    <<
        "/","e","x","a","m","p","l","e","s","/","h","t","m","l","/","h",
        "e","r","o","-","w","i","t","h","-","i","m","a","g","e","-","a",
        "n","d","-","r","e","v","i","e","w","s",".","h","t","m","l" >>

\* scrape_logos.main: the fixed (url, filename) table
websites ==
    << [url |-> <<"h","t","t","p","s",":","/","/","l","u","i","h",".","c","o","m">>,
        filename |-> "luih_logo.svg"],
       [url |-> <<"h","t","t","p","s",":","/","/","i","n","v","i","s","t","o",".","u","s">>,
        filename |-> "invisto_logo.svg"] >>

FileNames == {"luih_logo.svg", "invisto_logo.svg", "hero-image.png", "hero-image.avif"}

-----------------------------------------------------------------------------
(* Parsed documents: the elements of a page in document order.  An absent  *)
(* attribute is PyNone; tag names are lower case, as html.parser gives.    *)

Element(tag, alt, src, attrs, body) ==
    [tag |-> tag, alt |-> alt, src |-> src, attrs |-> attrs, body |-> body]

AltLogo == PyStr(<<"L","o","G","o">>)
AltBrand == PyStr(<<"a"," ","B","r","a","n","d">>)
SrcRel == PyStr(<<"/","a">>)
SrcHttps == PyStr(Https \o <<"c","/","a">>)
SrcHttp == PyStr(Http \o <<"c","/","a">>)

Img(alt, src) == Element("img", alt, src, <<>>, <<>>)

\* img elements: alt matching a keyword or not, absent or present; src
\* absent, empty, relative or absolute
ImgElems ==
    { Img(AltLogo, SrcHttps),
      Img(AltLogo, SrcHttp),
      Img(AltLogo, PyNone),
      Img(AltBrand, SrcRel),
      Img(AltBrand, PyStr(<<>>)),
      Img(PyStr(HeroAlt), SrcRel),
      Img(PyStr(HeroAlt), PyNone),
      Img(PyNone, SrcHttps) }

SvgElems ==
    { Element("svg", PyNone, PyNone, <<>>, <<>>),
      Element("svg", PyNone, PyNone, <<" ","w","=","\"","1","\"">>,
              << <<"<","g",">">>, <<"<","/","g",">">> >>) }

\* an element that is neither img nor svg, carrying the attributes img would
OtherElems == { Element("div", PyStr(<<"l","o","g","o">>), PyStr(<<"/","d">>), <<>>, <<>>) }

Elements == ImgElems \cup SvgElems \cup OtherElems

Pages == UNION { [1 .. n -> Elements] : n \in 0 .. MaxElems }

\* soup.find_all(tag): the indices of the elements with that tag, in order
FindAll(p, tag) == { i \in 1 .. Len(p) : p[i].tag = tag }

Min(S) == CHOOSE x \in S : \A y \in S : x <= y

\* Tag.get(attr, '') for the alt attribute
AltOrEmpty(e) == IF e.alt.some THEN e.alt.s ELSE <<>>

\* Tag.prettify(): the opening tag, each child on a line of its own indented
\* by one space, the closing tag, every line ended by a newline
RECURSIVE PrettyLines(_)
PrettyLines(body) ==
    IF body = <<>> THEN <<>>
    ELSE <<" ">> \o Head(body) \o <<"\n">> \o PrettyLines(Tail(body))

prettify(e) ==
    SvgTag \o e.attrs \o <<">","\n">>
        \o PrettyLines(e.body)
        \o <<"<","/","s","v","g",">","\n">>

-----------------------------------------------------------------------------
(* scrape_logos.py *)

\* line 23: any(keyword in img.get('alt', '').lower() for keyword in ['logo', 'brand'])
KeywordMatch(e) ==
    \/ Contains(Lower(AltOrEmpty(e)), KwLogo)
    \/ Contains(Lower(AltOrEmpty(e)), KwBrand)

\* lines 21-25: the img elements whose alt matches
MatchingImgs(p) == { i \in FindAll(p, "img") : KeywordMatch(p[i]) }

\* lines 18-25: logo after the loop over the img tags
LogoFromImgs(p) ==
    IF MatchingImgs(p) = {} THEN PyNone ELSE p[Min(MatchingImgs(p))].src

\* line 28: whether the svg elements are looked at
SvgConsulted(p) == ~Truthy(LogoFromImgs(p))

\* (mutant of LogoOfPage: the last svg element instead of the first)
LogoOfPage_LastSvg(p) ==
    IF SvgConsulted(p) /\ FindAll(p, "svg") # {}
    THEN PyStr(prettify(p[CHOOSE i \in FindAll(p, "svg") : \A j \in FindAll(p, "svg") : j <= i]))
    ELSE LogoFromImgs(p)

\* lines 17-34: the heuristic on a parsed page
LogoOfPage(p) ==
    IF SvgConsulted(p) /\ FindAll(p, "svg") # {}
    THEN PyStr(prettify(p[Min(FindAll(p, "svg"))]))
    ELSE LogoFromImgs(p)

\* What requests.get, raise_for_status and the parse of a page do: "ok", or
\* "exc" transport error, "bad" error status, "parse" parser failure.
Failures == {"exc", "bad", "parse"}

-----------------------------------------------------------------------------
(* External effects.  Every print, GET, makedirs and open-for-writing is    *)
(* appended to the trace `out`; an open records what public/images was at   *)
(* that moment.                                                             *)

Event(op, tag, a, mode, dir, ok) ==
    [op |-> op, tag |-> tag, arg |-> a, mode |-> mode, dir |-> dir, ok |-> ok]

PrintMsg(tag, a) == Event("print", tag, a, "", "", TRUE)
Get(url, ok) == Event("get", "", url, "", "", ok)
MakeDirs(ok) == Event("makedirs", "", <<>>, "", "", ok)
Parse(ok) == Event("parse", "", <<>>, "", "", ok)
Encode(mode) == Event("encode", mode, <<>>, "", "", TRUE)

\* requests.get(url); raise_for_status(); BeautifulSoup(response.text, ...)
FetchTrace(url, status) ==
    IF status = "ok" THEN <<Get(url, TRUE), Parse(TRUE)>>
    ELSE IF status = "parse" THEN <<Get(url, TRUE), Parse(FALSE)>>
    ELSE <<Get(url, FALSE)>>
Open(filename, mode, ok) == Event("open", filename, <<>>, mode, dirKind, ok)

NoFile == [present |-> FALSE, mode |-> "", data |-> <<>>]
File(mode, data) == [present |-> TRUE, mode |-> mode, data |-> data]

\* Response bodies of a successful asset GET.
Bodies == { <<"#1">>, <<"#2">> }

\* open(path, mode) of a file under public/images succeeds when the path
\* is a directory and the file system accepts the write.
OpenSucceeds(ioOk) == dirKind = "dir" /\ ioOk

\* with open(f'public/images/{filename}', mode) as f: f.write(data)
WriteFile(filename, mode, data, ioOk) ==
    [ out |-> <<Open(filename, mode, OpenSucceeds(ioOk))>>,
      files |-> IF OpenSucceeds(ioOk)
                THEN [files EXCEPT ![filename] = File(mode, data)]
                ELSE files,
      raised |-> ~OpenSucceeds(ioOk) ]

\* os.path.exists('public/images'): true of a directory and of any other file
PathExists == dirKind # "absent"

\* scrape_logos.py lines 6-9: create_image_folder; makedirs may raise
create_image_folder(mkOk) ==
    IF ~PathExists
    THEN IF mkOk
         THEN [dirKind |-> "dir", out |-> <<MakeDirs(TRUE), PrintMsg("created_folder", <<>>)>>,
               raised |-> FALSE]
         ELSE [dirKind |-> dirKind, out |-> <<MakeDirs(FALSE)>>, raised |-> TRUE]
    ELSE [dirKind |-> dirKind, out |-> <<>>, raised |-> FALSE]

\* (mutant of get_logo_url: the exception of a failed fetch is not caught)
get_logo_url_Uncaught(url, status, p) ==
    IF status = "ok"
    THEN [value |-> LogoOfPage(p), out |-> FetchTrace(url, status), raised |-> FALSE]
    ELSE [value |-> PyNone, out |-> FetchTrace(url, status), raised |-> TRUE]

\* scrape_logos.py lines 11-37: get_logo_url(url), given what the fetch does
\* and the page it parses.  raised: whether an exception leaves the function
\* (none does: line 35 catches every Exception).
get_logo_url(url, status, p) ==
    IF status = "ok"
    THEN [value |-> LogoOfPage(p), out |-> FetchTrace(url, status), raised |-> FALSE]
    ELSE [value |-> PyNone,
          out |-> FetchTrace(url, status) \o <<PrintMsg("error_scraping", url)>>,
          raised |-> FALSE]

\* line 42 / line 49 / line 78: the prefix tests
IsSvgMarkup(s) == StartsWith(s, SvgTag)

\* (mutant of IsHttpUrl: the scheme is compared without regard to case)
IsHttpUrl_AnyCase(s) == StartsWith(Lower(s), Http) \/ StartsWith(Lower(s), Https)

IsHttpUrl(s) == StartsWith(s, Http) \/ StartsWith(s, Https)

\* scrape_logos.py lines 39-62: save_logo(url, filename).  status and body are
\* what the GET of line 50 does, ioOk whether the file system takes the write.
save_logo(url, filename, status, body, ioOk) ==
    IF ~url.some
    THEN \* url.startswith raises on None: caught at line 61
         [out |-> <<PrintMsg("error_saving", <<>>)>>, files |-> files, raised |-> FALSE]
    ELSE IF IsSvgMarkup(url.s)
    THEN LET w == WriteFile(filename, "w", url.s, ioOk)
         IN  [out |-> w.out \o <<IF w.raised THEN PrintMsg("error_saving", <<>>)
                                             ELSE PrintMsg("saved", <<>>)>>,
              files |-> w.files, raised |-> FALSE]
    ELSE IF IsHttpUrl(url.s)
    THEN IF status # "ok"
         THEN [out |-> <<Get(url.s, FALSE), PrintMsg("error_saving", <<>>)>>,
               files |-> files, raised |-> FALSE]
         ELSE LET w == WriteFile(filename, "wb", body, ioOk)
              IN  [out |-> <<Get(url.s, TRUE)>> \o w.out
                            \o <<IF w.raised THEN PrintMsg("error_saving", <<>>)
                                             ELSE PrintMsg("saved", <<>>)>>,
                   files |-> w.files, raised |-> FALSE]
    ELSE [out |-> <<PrintMsg("invalid_url", url.s)>>, files |-> files, raised |-> FALSE]

\* (mutant of JoinUrl: the candidate's leading slash is kept)
JoinUrl_NoLStrip(url, cand) == RStrip(url, "/") \o <<"/">> \o cand

\* lines 78-79: the relative candidate made absolute
JoinUrl(url, cand) == RStrip(url, "/") \o <<"/">> \o LStrip(cand, "/")

\* line 78: isinstance(str) and not startswith(('<svg', 'http://', 'https://'))
NeedsBase(cand) == cand.some /\ ~IsSvgMarkup(cand.s) /\ ~IsHttpUrl(cand.s)

\* (mutant of Normalize: the candidate is handed on as it is)
Normalize_Skip(url, cand) == cand

\* lines 76-79: what main hands to save_logo for a truthy candidate
Normalize(url, cand) == IF NeedsBase(cand) THEN PyStr(JoinUrl(url, cand.s)) ELSE cand

-----------------------------------------------------------------------------
(* download_hero_image.py *)

\* download_hero_image.py lines 5-8: create_image_folder
hero_create_image_folder(mkOk) ==
    IF ~PathExists
    THEN IF mkOk
         THEN [dirKind |-> "dir", out |-> <<MakeDirs(TRUE), PrintMsg("created_folder", <<>>)>>,
               raised |-> FALSE]
         ELSE [dirKind |-> dirKind, out |-> <<MakeDirs(FALSE)>>, raised |-> TRUE]
    ELSE [dirKind |-> dirKind, out |-> <<>>, raised |-> FALSE]

\* (mutant of HeroImgs: find('img') without the alt filter)
HeroImgs_AnyImg(p) == FindAll(p, "img")

\* line 26: soup.find('img', {'alt': 'Hero Image'}): the first such img, or 0
HeroImgs(p) == { i \in FindAll(p, "img") : p[i].alt = PyStr(HeroAlt) }
FindHero(p) == IF HeroImgs(p) = {} THEN 0 ELSE Min(HeroImgs(p))

\* line 28: hero_image and hero_image.get('src')
HeroFound(p) == FindHero(p) # 0 /\ Truthy(p[FindHero(p)].src)

\* lines 30-34: the image URL, made absolute by prefixing the host
HeroUrl(p) ==
    LET src == p[FindHero(p)].src.s
    IN  IF IsHttpUrl(src) THEN src ELSE PrelineHost \o src

-----------------------------------------------------------------------------
(* convert_to_avif.py *)

\* An opened image: its mode and whether img.info has a transparency entry.
Image(valid, mode, transparency) ==
    [valid |-> valid, mode |-> mode, transparency |-> transparency]
NoImage == Image(FALSE, "", FALSE)

\* Pillow's image modes: bilevel, grey, palette, true colour, CMYK, and the
\* modes with an alpha channel (LA, PA, RGBA; premultiplied La, RGBa)
Modes == {"1", "L", "P", "RGB", "CMYK", "LA", "PA", "RGBA", "La", "RGBa"}

\* what Image.open can find at the input path; an invalid image raises
Images == { Image(TRUE, m, t) : m \in Modes, t \in BOOLEAN } \cup { NoImage }

\* line 17: the test that decides the conversion
NeedsRgb(im) ==
    \/ im.mode \in {"RGBA", "LA"}
    \/ (im.mode = "P" /\ im.transparency)

\* lines 17-18: the image handed to img.save
Prepared(im) == IF NeedsRgb(im) THEN [im EXCEPT !.mode = "RGB"] ELSE im

-----------------------------------------------------------------------------
(* The runs.  script names what is run: one of the three entry points, or   *)
(* save_logo / the join of main called directly on drawn arguments.         *)

Scripts == {"scrape_logos", "download_hero_image", "convert_to_avif", "save_logo", "join"}
DirKinds == {"absent", "dir", "file"}
Statuses == {"ok", "exc", "bad"}

\* candidates for a direct call of save_logo
CallCands ==
    { PyNone,
      PyStr(<<>>),
      PyStr(SvgTag \o <<">","<","/","s","v","g",">">>),
      PyStr(<<" ">> \o SvgTag \o <<">">>),
      PyStr(<<"<","S","V","G",">">>),
      PyStr(Https \o <<"c","/","a">>),
      PyStr(Http \o <<"c","/","a">>),
      PyStr(<<"H","T","T","P",":","/","/","c">>),
      PyStr(<<"f","t","p",":","/","/","c">>),
      PyStr(<<"/","i","m","g","/","l","o","g","o",".","s","v","g">>),
      PyStr(<<"/","/","c","/","a">>),
      PyStr(<<"a",".","p","n","g">>),
      PyStr(<<"/">>) }

\* base URLs for a direct evaluation of the join
Bases ==
    { websites[1].url,
      websites[2].url \o <<"/">>,
      websites[1].url \o <<"/","/">>,
      <<"h","t","t","p","s",":","/","/","e","x","a","m","p","l","e",".","c","o","m">>,
      Http \o <<"h","/","p","/">> }

NoArg == [url |-> PyNone, base |-> <<>>]
NoFiles == [f \in FileNames |-> NoFile]

Init ==
    /\ script \in Scripts
    /\ pc = "start"
    /\ dirKind \in DirKinds
    /\ out = <<>>
    /\ idx = 1
    /\ page = <<>>
    /\ logo_content = PyNone
    /\ image_url = PyNone
    /\ IF script = "convert_to_avif" /\ dirKind = "dir"
       THEN \/ files = NoFiles /\ img = NoImage
            \/ /\ files = [NoFiles EXCEPT !["hero-image.png"] = File("wb", <<"#1">>)]
               /\ img \in Images
       ELSE files = NoFiles /\ img = NoImage
    /\ IF script = "save_logo" THEN arg \in [url : CallCands, base : {<<>>}]
       ELSE IF script = "join" THEN arg \in [url : {c \in CallCands : Truthy(c)}, base : Bases]
       ELSE arg = NoArg

(* scrape_logos.main *)

\* line 65
ScrapeCreateFolder ==
    /\ script = "scrape_logos" /\ pc = "start"
    /\ \E mkOk \in BOOLEAN :
         LET r == create_image_folder(mkOk)
         IN  /\ dirKind' = r.dirKind
             /\ out' = out \o r.out
             /\ pc' = IF r.raised THEN "crashed" ELSE "loop"
    /\ UNCHANGED <<script, files, idx, page, logo_content, image_url, img, arg>>

\* lines 72-74, the page fetch succeeding
ScrapeFetchOk ==
    /\ script = "scrape_logos" /\ pc = "loop" /\ idx <= Len(websites)
    /\ \E p \in Pages :
         LET r == get_logo_url(websites[idx].url, "ok", p)
         IN  /\ page' = p
             /\ logo_content' = r.value
             /\ out' = out \o <<PrintMsg("processing", websites[idx].url)>> \o r.out
             /\ pc' = IF r.raised THEN "crashed" ELSE "got"
    /\ UNCHANGED <<script, dirKind, files, idx, image_url, img, arg>>

\* lines 72-74, the page fetch or the parse failing
ScrapeFetchFail ==
    /\ script = "scrape_logos" /\ pc = "loop" /\ idx <= Len(websites)
    /\ \E status \in Failures :
         LET r == get_logo_url(websites[idx].url, status, <<>>)
         IN  /\ page' = <<>>
             /\ logo_content' = r.value
             /\ out' = out \o <<PrintMsg("processing", websites[idx].url)>> \o r.out
             /\ pc' = IF r.raised THEN "crashed" ELSE "got"
    /\ UNCHANGED <<script, dirKind, files, idx, image_url, img, arg>>

\* lines 76-79: a truthy candidate is normalized
ScrapeNormalize ==
    /\ script = "scrape_logos" /\ pc = "got" /\ Truthy(logo_content)
    /\ logo_content' = Normalize(websites[idx].url, logo_content)
    /\ page' = <<>>
    /\ pc' = "save"
    /\ UNCHANGED <<script, dirKind, files, out, idx, image_url, img, arg>>

\* lines 82-83: no candidate
ScrapeNoLogo ==
    /\ script = "scrape_logos" /\ pc = "got" /\ ~Truthy(logo_content)
    /\ out' = out \o <<PrintMsg("no_logo", websites[idx].url)>>
    /\ idx' = idx + 1
    /\ page' = <<>>
    /\ pc' = "loop"
    /\ UNCHANGED <<script, dirKind, files, logo_content, image_url, img, arg>>

\* line 81
ScrapeSave ==
    /\ script = "scrape_logos" /\ pc = "save"
    /\ \E status \in Statuses, body \in Bodies, ioOk \in BOOLEAN :
         LET r == save_logo(logo_content, websites[idx].filename, status, body, ioOk)
         IN  /\ out' = out \o r.out
             /\ files' = r.files
             /\ pc' = IF r.raised THEN "crashed" ELSE "loop"
    /\ idx' = idx + 1
    /\ UNCHANGED <<script, dirKind, page, logo_content, image_url, img, arg>>

\* line 72: the list is exhausted
ScrapeExit ==
    /\ script = "scrape_logos" /\ pc = "loop" /\ idx > Len(websites)
    /\ pc' = "done"
    /\ UNCHANGED <<script, dirKind, files, out, idx, page, logo_content, image_url, img, arg>>

(* save_logo and the join of main, called directly *)

SaveLogoCall ==
    /\ script = "save_logo" /\ pc = "start"
    /\ \E status \in Statuses, body \in Bodies, ioOk \in BOOLEAN :
         LET r == save_logo(arg.url, "luih_logo.svg", status, body, ioOk)
         IN  /\ out' = out \o r.out
             /\ files' = r.files
             /\ pc' = IF r.raised THEN "crashed" ELSE "done"
    /\ UNCHANGED <<script, dirKind, idx, page, logo_content, image_url, img, arg>>

\* lines 76-79 on a drawn site URL and a drawn truthy candidate
JoinCall ==
    /\ script = "join" /\ pc = "start" /\ Truthy(arg.url)
    /\ logo_content' = Normalize(arg.base, arg.url)
    /\ pc' = "done"
    /\ UNCHANGED <<script, dirKind, files, out, idx, page, image_url, img, arg>>

(* download_hero_image *)

\* line 13, inside the try of line 11
HeroCreateFolder ==
    /\ script = "download_hero_image" /\ pc = "start"
    /\ \E mkOk \in BOOLEAN :
         LET r == hero_create_image_folder(mkOk)
         IN  /\ dirKind' = r.dirKind
             /\ out' = out \o r.out
                       \o (IF r.raised THEN <<PrintMsg("error_hero", <<>>)>> ELSE <<>>)
             /\ pc' = IF r.raised THEN "done" ELSE "fetch"
    /\ UNCHANGED <<script, files, idx, page, logo_content, image_url, img, arg>>

\* lines 19-23 raising
HeroFetchFail ==
    /\ script = "download_hero_image" /\ pc = "fetch"
    /\ \E status \in Failures :
         out' = out \o FetchTrace(HeroPageUrl, status) \o <<PrintMsg("error_hero", <<>>)>>
    /\ pc' = "done"
    /\ UNCHANGED <<script, dirKind, files, idx, page, logo_content, image_url, img, arg>>

\* lines 19-34 and 44-45: the page is fetched and searched
HeroFetchOk ==
    /\ script = "download_hero_image" /\ pc = "fetch"
    /\ \E p \in Pages :
         /\ page' = p
         /\ IF HeroFound(p)
            THEN /\ image_url' = PyStr(HeroUrl(p))
                 /\ out' = out \o FetchTrace(HeroPageUrl, "ok")
                 /\ pc' = "download"
            ELSE /\ image_url' = image_url
                 /\ out' = out \o FetchTrace(HeroPageUrl, "ok")
                                \o <<PrintMsg("hero_not_found", <<>>)>>
                 /\ pc' = "done"
    /\ UNCHANGED <<script, dirKind, files, idx, logo_content, img, arg>>

\* lines 37-43
HeroDownload ==
    /\ script = "download_hero_image" /\ pc = "download"
    /\ \E status \in Statuses, body \in Bodies, ioOk \in BOOLEAN :
         IF status # "ok"
         THEN /\ out' = out \o <<Get(image_url.s, FALSE), PrintMsg("error_hero", <<>>)>>
              /\ files' = files
         ELSE LET w == WriteFile("hero-image.png", "wb", body, ioOk)
              IN  /\ out' = out \o <<Get(image_url.s, TRUE)>> \o w.out
                            \o <<IF w.raised THEN PrintMsg("error_hero", <<>>)
                                             ELSE PrintMsg("hero_saved", <<>>)>>
                  /\ files' = w.files
    /\ pc' = "done"
    /\ UNCHANGED <<script, dirKind, idx, page, logo_content, image_url, img, arg>>

(* convert_to_avif.main *)

\* lines 33-35: the input is missing
AvifMissing ==
    /\ script = "convert_to_avif" /\ pc = "start"
    /\ ~files["hero-image.png"].present
    /\ out' = out \o <<PrintMsg("missing_input", <<>>)>>
    /\ pc' = "done"
    /\ UNCHANGED <<script, dirKind, files, idx, page, logo_content, image_url, img, arg>>

\* line 38 and lines 13-25: convert_to_avif
AvifConvert ==
    /\ script = "convert_to_avif" /\ pc = "start"
    /\ files["hero-image.png"].present
    /\ IF ~img.valid
       THEN /\ out' = out \o <<PrintMsg("error_converting", <<>>)>>
            /\ UNCHANGED files
       ELSE \E ioOk \in BOOLEAN :
              LET w == WriteFile("hero-image.avif", "wb", <<Prepared(img).mode>>, ioOk)
              IN  /\ files' = w.files
                  /\ out' = out \o <<Encode(Prepared(img).mode)>> \o w.out
                            \o <<IF w.raised THEN PrintMsg("error_converting", <<>>)
                                             ELSE PrintMsg("converted", <<>>)>>
    /\ pc' = "done"
    /\ UNCHANGED <<script, dirKind, idx, page, logo_content, image_url, img, arg>>

Next ==
    \/ ScrapeCreateFolder
    \/ ScrapeFetchOk
    \/ ScrapeFetchFail
    \/ ScrapeNormalize
    \/ ScrapeNoLogo
    \/ ScrapeSave
    \/ ScrapeExit
    \/ SaveLogoCall
    \/ JoinCall
    \/ HeroCreateFolder
    \/ HeroFetchFail
    \/ HeroFetchOk
    \/ HeroDownload
    \/ AvifMissing
    \/ AvifConvert

Spec == Init /\ [][Next]_vars

-----------------------------------------------------------------------------
(* Properties *)

\* s begins with the characters of p
HasPrefix(s, p) == Len(s) >= Len(p) /\ \A i \in 1 .. Len(p) : s[i] = p[i]

\* the position of the first element of p that satisfies Q, in document order
IsFirst(p, i, Q(_)) == i \in 1 .. Len(p) /\ Q(p[i]) /\ \A j \in 1 .. i - 1 : ~Q(p[j])

\* "an image element whose alt text contains logo or brand (case-insensitive)"
IsLogoImg(e) ==
    e.tag = "img" /\ e.alt.some
    /\ (Contains(Lower(e.alt.s), KwLogo) \/ Contains(Lower(e.alt.s), KwBrand))
IsSvg(e) == e.tag = "svg"

\* scrape_logos.main holds the result of get_logo_url on a parsed page
Searched == script = "scrape_logos" /\ pc = "got" /\ out[Len(out)] = Parse(TRUE)

\* C1: whenever the parsed page has an image whose alt contains "logo" or
\* "brand", get_logo_url returns the src attribute of the first such image,
\* whatever that src is, and never the markup of an svg element of the page.
C1_SrcOfFirstLogoImg ==
    Searched =>
        \A i \in 1 .. Len(page) :
            IsFirst(page, i, IsLogoImg) =>
                /\ logo_content = page[i].src
                /\ \A j \in 1 .. Len(page) :
                       IsSvg(page[j]) => logo_content # PyStr(prettify(page[j]))

\* C2: whenever the parsed page has no image whose alt contains "logo" or
\* "brand" and has an svg element, get_logo_url returns the pretty-printed
\* markup of the first svg element: a non-empty string starting with "<svg",
\* not the absent value and not the src of an image of the page.
C2_FirstSvgMarkup ==
    Searched =>
        \A i \in 1 .. Len(page) :
            (IsFirst(page, i, IsSvg) /\ \A k \in 1 .. Len(page) : ~IsLogoImg(page[k])) =>
                /\ logo_content.some
                /\ logo_content.s # <<>>
                /\ HasPrefix(logo_content.s, <<"<","s","v","g">>)
                /\ logo_content = PyStr(prettify(page[i]))
                /\ \A k \in 1 .. Len(page) : page[k].tag = "img" => logo_content # page[k].src

\* C2 witness: a page of two different svg elements and no image was searched
\* and the markup of the first one came back
C2_Witness ==
    /\ Searched /\ Len(page) = 2
    /\ IsSvg(page[1]) /\ IsSvg(page[2]) /\ page[1] # page[2]
    /\ logo_content = PyStr(prettify(page[1]))

\* the positions of the events of one kind in the trace
EventsOf(op) == { i \in 1 .. Len(out) : out[i].op = op }
Printed(tag) == \E i \in EventsOf("print") : out[i].tag = tag

\* the cases of save_logo's url
C3_CaseSvg == arg.url.some /\ HasPrefix(arg.url.s, <<"<","s","v","g">>)
C3_CaseHttp ==
    /\ arg.url.some
    /\ \/ HasPrefix(arg.url.s, <<"h","t","t","p",":","/","/">>)
       \/ HasPrefix(arg.url.s, <<"h","t","t","p","s",":","/","/">>)
C3_GetOk == \E i \in EventsOf("get") : out[i].ok /\ out[i].arg = arg.url.s

\* C3: a direct call save_logo(url, 'luih_logo.svg') reaches its write (opens the
\* output file) exactly when url starts with "<svg" (text mode "w", the
\* markup as data, no GET issued) or url starts with "http://" or "https://"
\* and the GET succeeded (binary mode "wb", a response body as data); the file
\* then exists exactly when the file system accepted that open.  For any
\* other url, and for an http(s) url whose GET failed, nothing is opened or
\* written.
C3_WritesExactlyInTwoCases ==
    (script = "save_logo" /\ pc # "start") =>
        /\ pc = "done"
        /\ (EventsOf("open") # {}) <=> (C3_CaseSvg \/ (C3_CaseHttp /\ C3_GetOk))
        /\ Cardinality(EventsOf("open")) <= 1
        /\ files["luih_logo.svg"].present <=> (\E i \in EventsOf("open") : out[i].ok)
        /\ \A f \in FileNames \ {"luih_logo.svg"} : ~files[f].present
        /\ C3_CaseSvg =>
              /\ EventsOf("get") = {}
              /\ \A i \in EventsOf("open") :
                    /\ out[i].tag = "luih_logo.svg" /\ out[i].mode = "w"
                    /\ out[i].ok => files["luih_logo.svg"] = File("w", arg.url.s)
        /\ (~C3_CaseSvg /\ C3_CaseHttp) =>
              \A i \in EventsOf("open") :
                    /\ out[i].tag = "luih_logo.svg" /\ out[i].mode = "wb"
                    /\ out[i].ok => /\ files["luih_logo.svg"].mode = "wb"
                                    /\ files["luih_logo.svg"].data \in Bodies

\* C3 witness: an https candidate was fetched and its body written as binary
C3_Witness ==
    /\ script = "save_logo" /\ pc = "done"
    /\ C3_CaseHttp /\ ~C3_CaseSvg /\ C3_GetOk
    /\ files["luih_logo.svg"].present /\ files["luih_logo.svg"].mode = "wb"

\* the sites whose processing has begun, in order
IsProcessing(e) == e.op = "print" /\ e.tag = "processing"
Processed == SelectSeq(out, IsProcessing)

\* C4: in scrape_logos.main the sites are processed in list order; once the
\* loop is entered no failure ends the run (an uncaught exception can occur
\* only before the first site), a failed page fetch gives the absent
\* candidate for that site, every step of the loop can be followed by the
\* next one, and the run ends only when every site has been processed.
C4_EverySiteProcessed ==
    script = "scrape_logos" =>
        LET k == IF pc \in {"start", "crashed"} THEN 0
                 ELSE IF pc \in {"got", "save"} THEN idx
                 ELSE idx - 1
        IN  /\ Len(Processed) = k
            /\ k <= Len(websites)
            /\ \A i \in 1 .. k : Processed[i].arg = websites[i].url
            /\ pc = "done" => k = Len(websites)
            /\ pc \in {"loop", "got", "save"} => ENABLED Next
            /\ (pc = "got" /\ out[Len(out)].tag = "error_scraping") =>
                   logo_content = PyNone

\* C4 witness: the run ended after the save of the first site's logo had
\* failed and the page fetch of the second site had failed
C4_Witness ==
    /\ script = "scrape_logos" /\ pc = "done"
    /\ \E i, j, k \in EventsOf("print") :
          /\ i < j /\ j < k
          /\ out[i].tag = "error_saving"
          /\ out[j].tag = "processing" /\ out[j].arg = websites[2].url
          /\ out[k].tag = "error_scraping" /\ out[k].arg = websites[2].url

\* C5: no entry point ends by an uncaught exception.
C5_NoUncaughtException == pc # "crashed"

\* C6: in every run of the three scripts, public/images is an existing
\* directory whenever an output file is opened for writing.
C6_DirExistsAtEveryOpen ==
    script \in {"scrape_logos", "download_hero_image", "convert_to_avif"} =>
        \A i \in EventsOf("open") : out[i].dir = "dir"

\* the worked example of the join, and the candidates that are joined
C7_ExampleBase ==
    <<"h","t","t","p","s",":","/","/","e","x","a","m","p","l","e",".","c","o","m">>
C7_ExampleCand == <<"/","i","m","g","/","l","o","g","o",".","s","v","g">>
C7_ExampleJoin ==
    <<"h","t","t","p","s",":","/","/","e","x","a","m","p","l","e",".","c","o","m",
      "/","i","m","g","/","l","o","g","o",".","s","v","g">>
C7_NoPrefix(c) ==
    /\ ~HasPrefix(c, <<"<","s","v","g">>)
    /\ ~HasPrefix(c, <<"h","t","t","p",":","/","/">>)
    /\ ~HasPrefix(c, <<"h","t","t","p","s",":","/","/">>)

\* C7: for a candidate that starts with neither "http://", "https://" nor
\* "<svg", the join is the base without its trailing slashes, one "/", and
\* the candidate without its leading slashes; https://example.com joined
\* with /img/logo.svg is https://example.com/img/logo.svg.
C7_JoinWithOneSlash ==
    (script = "join" /\ pc = "done" /\ C7_NoPrefix(arg.url.s)) =>
        LET b == arg.base
            c == arg.url.s
        IN  /\ \E i \in 0 .. Len(b), j \in 0 .. Len(c) :
                  /\ \A t \in i + 1 .. Len(b) : b[t] = "/"
                  /\ i = 0 \/ b[i] # "/"
                  /\ \A t \in 1 .. j : c[t] = "/"
                  /\ j = Len(c) \/ c[j + 1] # "/"
                  /\ logo_content = PyStr(SubSeq(b, 1, i) \o <<"/">> \o SubSeq(c, j + 1, Len(c)))
            /\ (b = C7_ExampleBase /\ c = C7_ExampleCand) =>
                   logo_content = PyStr(C7_ExampleJoin)

\* C7 witness: https://example.com was joined with /img/logo.svg
C7_Witness ==
    /\ script = "join" /\ pc = "done"
    /\ arg.base = C7_ExampleBase
    /\ arg.url.s = C7_ExampleCand
    /\ logo_content = PyStr(C7_ExampleJoin)

\* the page was fetched and parsed and holds no img with alt "Hero Image"
C8_NoHeroImg ==
    /\ script = "download_hero_image"
    /\ \E i \in EventsOf("parse") : out[i].ok
    /\ \A k \in 1 .. Len(page) : ~(page[k].tag = "img" /\ page[k].alt = PyStr(HeroAlt))

\* C8: when the fetched and parsed page has no img whose alt is "Hero Image",
\* download_hero_image prints the not-found message, issues no request but
\* the page fetch, and opens and writes no file.
C8_NotFoundNoWrite ==
    C8_NoHeroImg =>
        /\ pc = "done"
        /\ out[Len(out)] = PrintMsg("hero_not_found", <<>>)
        /\ Cardinality(EventsOf("get")) = 1
        /\ EventsOf("open") = {}
        /\ \A f \in FileNames : ~files[f].present

\* C8 witness: a page with an img that has a src but another alt was searched
C8_Witness ==
    /\ C8_NoHeroImg /\ pc = "done"
    /\ \E k \in 1 .. Len(page) : page[k].tag = "img" /\ Truthy(page[k].src)
    /\ Printed("hero_not_found")

\* Pillow's modes with an alpha channel; a source that carries transparency
C9_AlphaModes == {"RGBA", "LA", "PA", "RGBa", "La"}
C9_Transparent(mode, transparency) ==
    mode \in C9_AlphaModes \/ (mode = "P" /\ transparency)

\* C9: the image handed to the encoder is plain RGB whenever the source's
\* mode has an alpha channel or is P with a transparency entry, so it never
\* carries alpha or transparency; any other source is encoded as it is.
C9_EncodedWithoutAlpha ==
    script = "convert_to_avif" =>
        \A i \in EventsOf("encode") :
            /\ C9_Transparent(img.mode, img.transparency) => out[i].tag = "RGB"
            /\ ~C9_Transparent(out[i].tag, img.transparency)
            /\ ~C9_Transparent(img.mode, img.transparency) => out[i].tag = img.mode

\* C10: every candidate scrape_logos.main hands to save_logo starts with
\* "<svg", "http://" or "https://", and save_logo never reports an invalid
\* URL format in a run of main.
C10_SavedCandidateHasPrefix ==
    script = "scrape_logos" =>
        /\ pc = "save" =>
              /\ logo_content.some
              /\ ~C7_NoPrefix(logo_content.s)
        /\ ~Printed("invalid_url")

\* C10 witness: a relative candidate, prefixed with the site's URL, is about
\* to be saved
C10_Witness ==
    /\ script = "scrape_logos" /\ pc = "save"
    /\ logo_content = PyStr(websites[idx].url \o <<"/","a">>)

====
